---- MODULE Spec2Model ----
(***************************************************************************)
(* Model of the AI Research Assistant API:                                 *)
(*   services/extract_service.py  - ExtractionService (metadata normalizer)*)
(*   services/openalex_service.py - OpenAlexService (provider client)      *)
(*   views.py                     - search (request handler)               *)
(*   models.py                    - QueryLog                               *)
(***************************************************************************)
EXTENDS Integers, Sequences, FiniteSets, TLC

VARIABLES
    work,      \* the raw OpenAlex work handed to ExtractionService
    result,    \* outcome of extract_metadata(work): a value, a raise, or NoResult
    cpc,       \* position inside OpenAlexService.search_papers / search_authors
    cargs,     \* arguments of the client call in progress
    calls,     \* calls made on the pyalex provider objects by the current client call
    cout,      \* outcome of the last client call: a list, a raise, or NoResult
    hpc,       \* position inside views.search
    req,       \* request.GET of the request in progress
    resp,      \* the JsonResponse of the last request, or NoResult
    papers,    \* the normalized papers of the request in progress, or NoResult
    qlog,      \* rows of the QueryLog table, oldest first
    creates    \* QueryLog.objects.create calls made by the request in progress

vars == <<work, result, cpc, cargs, calls, cout, hpc, req, resp, papers, qlog, creates>>
normVars == <<work, result>>
clientVars == <<cpc, cargs, calls, cout>>
viewVars == <<hpc, req, resp, papers, qlog, creates>>

(***************************************************************************)
(* Python values.  Every value carries its type in t, so that the code's   *)
(* isinstance tests, truthiness tests and attribute errors can be modelled.*)
(* A dict whose iteration order the code never observes is a function d;   *)
(* the one dict the code iterates (abstract_inverted_index) keeps its      *)
(* insertion order as a sequence of items.                                 *)
(***************************************************************************)
PyNone == [t |-> "None"]
PyStr(s) == [t |-> "str", s |-> s]
PyInt(n) == [t |-> "int", n |-> n]
PyBool(b) == [t |-> "bool", b |-> b]
PyList(l) == [t |-> "list", l |-> l]
PyDict(d) == [t |-> "dict", d |-> d]
PyODict(items) == [t |-> "dict", items |-> items]
Raise(exc) == [t |-> "raise", exc |-> exc]
NoResult == [t |-> "noresult"]

IsRaise(v) == v.t = "raise"
IsOrdered(v) == v.t = "dict" /\ "items" \in DOMAIN v

\* bool(v)
Truthy(v) ==
    CASE v.t = "None" -> FALSE
      [] v.t = "bool" -> v.b
      [] v.t = "int"  -> v.n # 0
      [] v.t = "str"  -> v.s # ""
      [] v.t = "list" -> v.l # <<>>
      [] v.t = "dict" -> IF IsOrdered(v) THEN v.items # <<>> ELSE DOMAIN v.d # {}

\* a or b
PyOr(a, b) == IF Truthy(a) THEN a ELSE b

\* obj.get(k, dflt): AttributeError when obj has no .get
PyGet(obj, k, dflt) ==
    IF obj.t = "dict" /\ ~IsOrdered(obj)
    THEN IF k \in DOMAIN obj.d THEN obj.d[k] ELSE dflt
    ELSE IF IsOrdered(obj)
         THEN IF \E i \in 1..Len(obj.items) : obj.items[i].k = k
              THEN obj.items[CHOOSE i \in 1..Len(obj.items) : obj.items[i].k = k].v
              ELSE dflt
         ELSE Raise("AttributeError")

\* The keys of an unordered dict in some order
RECURSIVE KeySeq(_)
KeySeq(S) ==
    IF S = {} THEN <<>>
    ELSE LET k == CHOOSE x \in S : TRUE IN <<PyStr(k)>> \o KeySeq(S \ {k})

\* The characters of a string, each a one-character str
RECURSIVE Chars(_)
Chars(s) == IF s = "" THEN <<>> ELSE <<PyStr(Head(s))>> \o Chars(Tail(s))

\* The elements "for x in v" visits, as a list, or the TypeError it raises
PyIter(v) ==
    CASE v.t = "list" -> v
      [] v.t = "str"  -> PyList(Chars(v.s))
      [] v.t = "dict" -> IF IsOrdered(v)
                         THEN PyList([i \in 1..Len(v.items) |-> PyStr(v.items[i].k)])
                         ELSE PyList(KeySeq(DOMAIN v.d))
      [] OTHER        -> Raise("TypeError")

\* PySliceIter with the slice dropped: every element is visited
PySliceIterUncapped(v, n) ==
    CASE v.t = "list" -> v
      [] v.t = "str"  -> PyList(Chars(v.s))
      [] v.t = "dict" -> Raise("KeyError")
      [] OTHER        -> Raise("TypeError")

\* v[:n] followed by iteration (a dict subscripted by a slice: KeyError)
PySliceIter(v, n) ==
    CASE v.t = "list" -> PyList(SubSeq(v.l, 1, IF Len(v.l) < n THEN Len(v.l) ELSE n))
      [] v.t = "str"  -> PyList(Chars(SubSeq(v.s, 1, IF Len(v.s) < n THEN Len(v.s) ELSE n)))
      [] v.t = "dict" -> Raise("KeyError")
      [] OTHER        -> Raise("TypeError")

\* The first raise of a sequence of evaluated expressions, if any
RECURSIVE FirstRaise(_)
FirstRaise(seq) ==
    IF seq = <<>> THEN NoResult
    ELSE IF IsRaise(Head(seq)) THEN Head(seq) ELSE FirstRaise(Tail(seq))

(***************************************************************************)
(* ExtractionService                                                       *)
(***************************************************************************)

\* [inst.get("display_name") for inst in <elements>]
RECURSIVE InstitutionNames(_)
InstitutionNames(insts) ==
    IF insts = <<>> THEN PyList(<<>>)
    ELSE LET name == PyGet(Head(insts), "display_name", PyNone)
             rest == InstitutionNames(Tail(insts))
         IN  IF IsRaise(name) THEN name
             ELSE IF IsRaise(rest) THEN rest
             ELSE PyList(<<name>> \o rest.l)

\* AuthorRecord with the "or ''" of the ORCID dropped: a null ORCID stays null
AuthorRecordRawOrcid(authorship) ==
    LET author == PyGet(authorship, "author", PyDict(<<>>))
        instIter == PyIter(PyGet(authorship, "institutions", PyList(<<>>)))
        institutions == IF IsRaise(instIter) THEN instIter
                        ELSE InstitutionNames(instIter.l)
        name == PyGet(author, "display_name", PyStr(""))
        orcid == PyGet(author, "orcid", PyNone)
        err == FirstRaise(<<author, institutions, name, orcid>>)
    IN  IF IsRaise(err) THEN err
        ELSE PyDict([k \in {"name", "orcid", "institutions"} |->
                 CASE k = "name" -> name
                   [] k = "orcid" -> orcid
                   [] k = "institutions" -> institutions])

\* The body of the loop of _extract_authors for one authorship entry
AuthorRecord(authorship) ==
    LET author == PyGet(authorship, "author", PyDict(<<>>))
        instIter == PyIter(PyGet(authorship, "institutions", PyList(<<>>)))
        institutions == IF IsRaise(instIter) THEN instIter
                        ELSE InstitutionNames(instIter.l)
        name == PyGet(author, "display_name", PyStr(""))
        orcid == PyGet(author, "orcid", PyNone)
        err == FirstRaise(<<author, institutions, name, orcid>>)
    IN  IF IsRaise(err) THEN err
        ELSE PyDict([k \in {"name", "orcid", "institutions"} |->
                 CASE k = "name" -> name
                   [] k = "orcid" -> PyOr(orcid, PyStr(""))
                   [] k = "institutions" -> institutions])

RECURSIVE AuthorRecords(_)
AuthorRecords(entries) ==
    IF entries = <<>> THEN PyList(<<>>)
    ELSE LET first == AuthorRecord(Head(entries))
         IN  IF IsRaise(first) THEN first
             ELSE LET rest == AuthorRecords(Tail(entries))
                  IN  IF IsRaise(rest) THEN rest
                      ELSE PyList(<<first>> \o rest.l)

ExtractAuthors(w) ==
    LET it == PyIter(PyGet(w, "authorships", PyList(<<>>)))
    IN  IF IsRaise(it) THEN it ELSE AuthorRecords(it.l)

\* RecordPositions that keeps the word already recorded at a position
RECURSIVE RecordPositionsKeepFirst(_, _, _)
RecordPositionsKeepFirst(words, word, positions) ==
    IF positions = <<>> THEN words
    ELSE RecordPositionsKeepFirst(
             [p \in DOMAIN words \cup {Head(positions)} |->
                 IF p \in DOMAIN words THEN words[p] ELSE word],
             word, Tail(positions))

\* words[pos] = word for every pos of one item, left to right
RECURSIVE RecordPositions(_, _, _)
RecordPositions(words, word, positions) ==
    IF positions = <<>> THEN words
    ELSE RecordPositions(
             [p \in DOMAIN words \cup {Head(positions)} |->
                 IF p = Head(positions) THEN word ELSE words[p]],
             word, Tail(positions))

\* the loop over inverted.items(), first item first
RECURSIVE RecordItems(_, _)
RecordItems(words, items) ==
    IF items = <<>> THEN words
    ELSE RecordItems(
             IF Head(items).v.t = "list"
             THEN RecordPositions(words, Head(items).k, Head(items).v.l)
             ELSE words,
             Tail(items))

\* SortedKeys with the order reversed
RECURSIVE SortedKeysDescending(_)
SortedKeysDescending(S) ==
    IF S = {} THEN <<>>
    ELSE LET m == CHOOSE x \in S : \A y \in S : x.n >= y.n
         IN  <<m>> \o SortedKeysDescending(S \ {m})

\* sorted(keys) for integer keys
RECURSIVE SortedKeys(_)
SortedKeys(S) ==
    IF S = {} THEN <<>>
    ELSE LET m == CHOOSE x \in S : \A y \in S : x.n <= y.n
         IN  <<m>> \o SortedKeys(S \ {m})

\* " ".join(seq)
RECURSIVE Join(_)
Join(seq) ==
    IF seq = <<>> THEN ""
    ELSE IF Len(seq) = 1 THEN seq[1]
    ELSE seq[1] \o " " \o Join(Tail(seq))

\* inverted.items(), in iteration order
DictItems(v) ==
    IF IsOrdered(v) THEN v.items
    ELSE LET ks == KeySeq(DOMAIN v.d)
         IN  [i \in 1..Len(ks) |-> [k |-> ks[i].s, v |-> v.d[ks[i].s]]]

ReconstructAbstract(w) ==
    LET inverted == PyGet(w, "abstract_inverted_index", PyNone)
    IN  IF ~Truthy(inverted) \/ inverted.t # "dict" THEN PyStr("")
        ELSE LET words == RecordItems(<<>>, DictItems(inverted))
                 keys == DOMAIN words
             IN  \* sorted() of keys of different types raises TypeError
                 IF \E p, q \in keys : p.t # q.t THEN Raise("TypeError")
                 ELSE IF \A p \in keys : p.t = "int"
                      THEN LET order == SortedKeys(keys)
                           IN  PyStr(Join([i \in 1..Len(order) |-> words[order[i]]]))
                      \* keys of one other type: None, of which there is one
                      ELSE PyStr(Join([i \in 1..Cardinality(keys) |->
                                          words[CHOOSE p \in keys : TRUE]]))

ExtractFullTextUrl(w) ==
    LET best_oa == PyGet(w, "best_oa_location", PyNone)
    IN  IF ~Truthy(best_oa) THEN PyNone
        ELSE LET pdf_url == PyGet(best_oa, "pdf_url", PyNone)
             IN  IF IsRaise(pdf_url) THEN pdf_url
                 ELSE IF Truthy(pdf_url) THEN pdf_url
                 ELSE LET landing_page == PyGet(best_oa, "landing_page_url", PyNone)
                      IN  IF Truthy(landing_page) THEN landing_page ELSE PyNone

ConceptLimit == 5

\* {"name": concept.get("display_name"), "score": concept.get("score")}
ConceptRecord(concept) ==
    LET name == PyGet(concept, "display_name", PyNone)
        score == PyGet(concept, "score", PyNone)
    IN  IF IsRaise(name) THEN name
        ELSE PyDict([k \in {"name", "score"} |-> IF k = "name" THEN name ELSE score])

RECURSIVE ConceptRecords(_)
ConceptRecords(entries) ==
    IF entries = <<>> THEN PyList(<<>>)
    ELSE LET first == ConceptRecord(Head(entries))
         IN  IF IsRaise(first) THEN first
             ELSE LET rest == ConceptRecords(Tail(entries))
                  IN  IF IsRaise(rest) THEN rest
                      ELSE PyList(<<first>> \o rest.l)

ExtractConcepts(w) ==
    LET it == PySliceIter(PyGet(w, "concepts", PyList(<<>>)), ConceptLimit)
    IN  IF IsRaise(it) THEN it ELSE ConceptRecords(it.l)

\* The "source" expression of extract_metadata: the condition first, then the chain
ExtractSource(w) ==
    LET pl == PyGet(w, "primary_location", PyNone)
        src == IF Truthy(pl) THEN PyGet(PyGet(w, "primary_location", PyDict(<<>>)),
                                        "source", PyNone)
               ELSE pl
    IN  IF IsRaise(src) THEN src
        ELSE IF Truthy(src)
             THEN PyGet(PyGet(PyGet(w, "primary_location", PyDict(<<>>)),
                              "source", PyDict(<<>>)),
                        "display_name", PyNone)
             ELSE PyNone

\* work.get("open_access", {}).get(k, dflt)
ExtractOpenAccess(w, k, dflt) ==
    PyGet(PyGet(w, "open_access", PyDict(<<>>)), k, dflt)

MetadataKeys ==
    <<"openalex_id", "title", "authors", "abstract", "publication_year", "doi",
      "cited_by_count", "concepts", "source", "is_open_access", "oa_status",
      "full_text_url">>

\* The values of the dict display of extract_metadata, in evaluation order
MetadataValues(w) ==
    << PyGet(w, "id", PyStr("")),
       PyGet(w, "title", PyStr("")),
       ExtractAuthors(w),
       ReconstructAbstract(w),
       PyGet(w, "publication_year", PyNone),
       PyGet(w, "doi", PyStr("")),
       PyGet(w, "cited_by_count", PyInt(0)),
       ExtractConcepts(w),
       ExtractSource(w),
       ExtractOpenAccess(w, "is_oa", PyBool(FALSE)),
       ExtractOpenAccess(w, "oa_status", PyNone),
       ExtractFullTextUrl(w) >>

ExtractMetadata(w) ==
    LET values == MetadataValues(w)
        err == FirstRaise(values)
    IN  IF IsRaise(err) THEN err
        ELSE PyDict([k \in {MetadataKeys[i] : i \in 1..Len(MetadataKeys)} |->
                 values[CHOOSE i \in 1..Len(MetadataKeys) : MetadataKeys[i] = k]])

(***************************************************************************)
(* Raw works the provider may return.  Any field may be absent, null or of *)
(* another type than documented.                                           *)
(***************************************************************************)
MaxAuthors == 2
MaxConcepts == 6
MaxTokens == 3
MaxFields == 3

\* All sequences over S of length at most n
SeqUpTo(S, n) == UNION {[1..m -> S] : m \in 0..n}

\* The dict fragments that lack k or map it to a value of S
OptField(k, S) == {<<>>} \cup {k :> v : v \in S}

AuthorValues ==
    { PyNone, PyDict(<<>>),
      PyDict("display_name" :> PyStr("Ann")),
      PyDict("display_name" :> PyStr("Ann") @@ "orcid" :> PyNone),
      PyDict("display_name" :> PyStr("Bob") @@ "orcid" :> PyStr("0000-0001")) }

Institution(name) == PyDict("display_name" :> PyStr(name))

InstitutionsValues ==
    { PyNone, PyList(<<>>), PyList(<<Institution("MIT")>>),
      PyList(<<Institution("MIT"), Institution("ETH")>>),
      PyList(<<Institution("ETH"), Institution("MIT")>>) }

Authorships ==
    { PyDict(a @@ i) : a \in OptField("author", AuthorValues),
                       i \in OptField("institutions", InstitutionsValues) }

AuthorshipsValues ==
    {PyNone, PyStr(""), PyStr("x")}
        \cup {PyList(l) : l \in SeqUpTo(Authorships \cup {PyNone}, MaxAuthors)}

Concept(name, score) == PyDict("display_name" :> PyStr(name) @@ "score" :> PyInt(score))

Concepts == {Concept("ML", 9), Concept("AI", 8)}

ConceptsValues ==
    {PyNone, PyStr(""), PyStr("x")}
        \cup {PyList(l) : l \in SeqUpTo(Concepts, MaxConcepts)}

Words == {"a", "b", "c"}
TokenSeqs == SeqUpTo(Words, MaxTokens)

\* The positions of word in tokens, zero-based, ascending
RECURSIVE PositionsOf(_, _, _)
PositionsOf(word, tokens, i) ==
    IF i > Len(tokens) THEN <<>>
    ELSE (IF tokens[i] = word THEN <<PyInt(i - 1)>> ELSE <<>>)
             \o PositionsOf(word, tokens, i + 1)

\* The inverted index of a token sequence: one item per distinct word, in
\* order of first occurrence
RECURSIVE InvertedItems(_, _)
InvertedItems(tokens, i) ==
    IF i > Len(tokens) THEN <<>>
    ELSE (IF \E j \in 1..(i - 1) : tokens[j] = tokens[i] THEN <<>>
          ELSE <<[k |-> tokens[i], v |-> PyList(PositionsOf(tokens[i], tokens, 1))]>>)
             \o InvertedItems(tokens, i + 1)

InvertedIndex(tokens) == PyODict(InvertedItems(tokens, 1))

Item(word, positions) == [k |-> word, v |-> positions]

\* Further indexes: two words at one position (in both insertion orders), a
\* gap, items inserted out of position order (two and three words), positions
\* that are no list, a null position
OtherIndexes ==
    { PyODict(<<Item("a", PyList(<<PyInt(0)>>)), Item("b", PyList(<<PyInt(0)>>))>>),
      PyODict(<<Item("b", PyList(<<PyInt(0)>>)), Item("a", PyList(<<PyInt(0)>>))>>),
      PyODict(<<Item("a", PyList(<<PyInt(0)>>)), Item("b", PyList(<<PyInt(2)>>))>>),
      PyODict(<<Item("b", PyList(<<PyInt(1)>>)), Item("a", PyList(<<PyInt(0)>>))>>),
      PyODict(<<Item("c", PyList(<<PyInt(2)>>)), Item("a", PyList(<<PyInt(0)>>)),
                Item("b", PyList(<<PyInt(1)>>))>>),
      PyODict(<<Item("a", PyNone), Item("b", PyList(<<PyInt(0)>>))>>),
      PyODict(<<Item("a", PyList(<<PyNone>>))>>),
      PyODict(<<Item("a", PyList(<<PyInt(0)>>)), Item("b", PyList(<<PyNone>>))>>) }

InvertedValues ==
    {PyNone, PyStr("a b"), PyList(<<PyStr("a")>>), PyInt(1)}
        \cup {InvertedIndex(tokens) : tokens \in TokenSeqs}
        \cup OtherIndexes

BestOaValues ==
    {PyNone, PyStr("x")}
        \cup { PyDict(p @@ l) :
                 p \in OptField("pdf_url", {PyNone, PyStr(""), PyStr("https://oa/p.pdf")}),
                 l \in OptField("landing_page_url", {PyNone, PyStr(""), PyStr("https://oa/page")}) }

FieldNames ==
    {"id", "title", "authorships", "abstract_inverted_index", "publication_year",
     "doi", "cited_by_count", "concepts", "primary_location", "open_access",
     "best_oa_location", "content_urls"}

\* The values a field takes in a work that carries several fields
FieldValues(k) ==
    CASE k = "id" -> {PyStr("https://openalex.org/W1")}
      [] k = "title" -> {PyStr("Minimal Paper")}
      [] k = "authorships" ->
            {PyNone, PyList(<<>>),
             PyList(<<PyDict("author" :> PyDict("display_name" :> PyStr("Ann")
                                                 @@ "orcid" :> PyNone)
                             @@ "institutions" :> PyList(<<Institution("MIT")>>))>>)}
      [] k = "abstract_inverted_index" ->
            {PyNone, PyODict(<<>>), InvertedIndex(<<"a", "b">>)}
      [] k = "publication_year" -> {PyNone, PyInt(2023)}
      [] k = "doi" -> {PyNone, PyStr("10.1234/sample.doi")}
      [] k = "cited_by_count" -> {PyNone, PyInt(50)}
      [] k = "concepts" -> {PyNone, PyList(<<Concept("ML", 9)>>)}
      [] k = "primary_location" ->
            {PyNone, PyStr("x"), PyDict(<<>>), PyDict("source" :> PyNone),
             PyDict("source" :> PyStr("x")),
             PyDict("source" :> PyDict("display_name" :> PyStr("Journal of AI")))}
      [] k = "open_access" ->
            {PyNone, PyDict(<<>>),
             PyDict("is_oa" :> PyBool(TRUE) @@ "oa_status" :> PyStr("gold"))}
      [] k = "best_oa_location" -> BestOaValues
      [] k = "content_urls" -> {PyDict("pdf" :> PyStr("https://content/p.pdf"))}

\* The fields whose sub-algorithm is exercised in depth, in a work that
\* carries that field alone
DeepFields == {"authorships", "abstract_inverted_index", "concepts"}

DeepValues(k) ==
    CASE k = "authorships" -> AuthorshipsValues
      [] k = "abstract_inverted_index" -> InvertedValues
      [] k = "concepts" -> ConceptsValues

IsShallow(w) == \A k \in DOMAIN w.d : w.d[k] \in FieldValues(k)

(***************************************************************************)
(* The normalizer on its own: a raw work is put together and handed to     *)
(* extract_metadata.                                                       *)
(***************************************************************************)
Init ==
    /\ work = PyDict(<<>>)
    /\ result = NoResult
    /\ cpc = "idle"
    /\ cargs = NoResult
    /\ calls = <<>>
    /\ cout = NoResult
    /\ hpc = "idle"
    /\ req = NoResult
    /\ resp = NoResult
    /\ papers = NoResult
    /\ qlog = <<>>
    /\ creates = <<>>

\* The provider's record gains or changes a field
SetField(k, v) ==
    /\ PyGet(work, k, NoResult) # v
    /\ work' = PyDict([f \in DOMAIN work.d \cup {k} |-> IF f = k THEN v ELSE work.d[f]])
    /\ result' = NoResult
    /\ UNCHANGED <<clientVars, viewVars>>

\* The provider's record lacks a field
DelField(k) ==
    /\ k \in DOMAIN work.d
    /\ work' = PyDict([f \in DOMAIN work.d \ {k} |-> work.d[f]])
    /\ result' = NoResult
    /\ UNCHANGED <<clientVars, viewVars>>

\* A record that carries one of the deep fields alone
ReceiveWork ==
    /\ DOMAIN work.d = {}
    /\ \E k \in DeepFields : \E v \in DeepValues(k) : work' = PyDict(k :> v)
    /\ result' = NoResult
    /\ UNCHANGED <<clientVars, viewVars>>

\* ExtractionService.extract_metadata(work)
Extract ==
    /\ result = NoResult
    /\ result' = ExtractMetadata(work)
    /\ UNCHANGED work
    /\ UNCHANGED <<clientVars, viewVars>>

NormNext ==
    \/ \E k \in { f \in FieldNames : /\ IsShallow(work)
                                     /\ Cardinality(DOMAIN work.d \cup {f}) <= MaxFields } :
          \E v \in FieldValues(k) : SetField(k, v)
    \/ \E k \in FieldNames : DelField(k)
    \/ ReceiveWork
    \/ Extract

SpecNorm == Init /\ [][NormNext]_vars

(***************************************************************************)
(* Properties of the normalizer (checked under SpecNorm)                   *)
(***************************************************************************)
Extracted == result # NoResult
Returned == Extracted /\ ~IsRaise(result)
Field(k) == PyGet(work, k, NoResult)
Absent(k) == k \notin DOMAIN work.d

\* C1: extract_metadata never raises, whichever optional fields of the raw
\* record are absent, null or malformed.
C1_NormalizerTotal == Extracted => ~IsRaise(result)

\* The record test_extract_metadata_minimal expects
AllDefaults(id, title) ==
    PyDict([k \in {"openalex_id", "title", "authors", "abstract", "publication_year",
                    "doi", "cited_by_count", "concepts", "source", "full_text_url"} |->
        CASE k = "openalex_id" -> id
          [] k = "title" -> title
          [] k = "authors" -> PyList(<<>>)
          [] k = "abstract" -> PyStr("")
          [] k = "publication_year" -> PyNone
          [] k = "doi" -> PyStr("")
          [] k = "cited_by_count" -> PyInt(0)
          [] k = "concepts" -> PyList(<<>>)
          [] k = "source" -> PyNone
          [] k = "full_text_url" -> PyNone])

\* C2: for a raw record that carries only an id and a title, extract_metadata
\* returns exactly the all-defaults record (ten fields) and does not raise.
C2_MinimalDefaults ==
    (Extracted /\ DOMAIN work.d = {"id", "title"})
        => result = AllDefaults(work.d["id"], work.d["title"])

\* The first present of best_oa_location.pdf_url, best_oa_location.landing_page_url
\* and content_urls.pdf, else absent
PriorityUrl(w) ==
    LET best == PyGet(w, "best_oa_location", PyDict(<<>>))
        content == PyGet(w, "content_urls", PyDict(<<>>))
        tiers == << IF best.t = "dict" THEN PyGet(best, "pdf_url", PyNone) ELSE PyNone,
                    IF best.t = "dict" THEN PyGet(best, "landing_page_url", PyNone)
                    ELSE PyNone,
                    IF content.t = "dict" THEN PyGet(content, "pdf", PyNone) ELSE PyNone >>
    IN  IF \E i \in 1..3 : Truthy(tiers[i])
        THEN tiers[CHOOSE i \in 1..3 : Truthy(tiers[i]) /\ \A j \in 1..(i - 1) : ~Truthy(tiers[j])]
        ELSE PyNone

\* C3: the full-text URL is the first present of best_oa_location.pdf_url,
\* best_oa_location.landing_page_url and content_urls.pdf, and absent only when
\* none of the three is present.
C3_UrlPriority == Returned => result.d["full_text_url"] = PriorityUrl(work)

\* tokens joined by single spaces
RECURSIVE SpaceJoined(_)
SpaceJoined(tokens) ==
    IF tokens = <<>> THEN ""
    ELSE IF Len(tokens) = 1 THEN tokens[1]
    ELSE SpaceJoined(SubSeq(tokens, 1, Len(tokens) - 1)) \o " " \o tokens[Len(tokens)]

\* C4: reconstructing the inverted index built from a token sequence returns
\* the tokens joined by single spaces; an index that is absent, not a mapping
\* or empty gives the empty string.
C4_AbstractRoundTrip ==
    Returned =>
        /\ \A tokens \in TokenSeqs :
              Field("abstract_inverted_index") = InvertedIndex(tokens)
                  => result.d["abstract"] = PyStr(SpaceJoined(tokens))
        /\ (Absent("abstract_inverted_index")
              \/ Field("abstract_inverted_index").t # "dict"
              \/ Field("abstract_inverted_index") = PyODict(<<>>))
                  => result.d["abstract"] = PyStr("")

C4_Witness ==
    /\ Returned
    /\ Field("abstract_inverted_index") = InvertedIndex(<<"b", "a", "b">>)
    /\ result.d["abstract"] = PyStr("b a b")

\* C5: a concept list of length n gives its first min(n, 5) entries in the
\* provider's order, each as {name, score}; a normalized record never has
\* more than 5 concepts.
C5_ConceptsFirstFive ==
    Returned =>
        /\ Len(result.d["concepts"].l) <= 5
        /\ Field("concepts").t = "list" =>
              LET given == Field("concepts").l
                  got == result.d["concepts"].l
              IN  /\ Len(got) = IF Len(given) < 5 THEN Len(given) ELSE 5
                  /\ \A i \in 1..Len(got) :
                        /\ DOMAIN got[i].d = {"name", "score"}
                        /\ got[i].d["name"] = given[i].d["display_name"]
                        /\ got[i].d["score"] = given[i].d["score"]

C5_Witness ==
    /\ Returned
    /\ Field("concepts").t = "list"
    /\ Len(Field("concepts").l) = 6
    /\ Field("concepts").l[5] # Field("concepts").l[1]
    /\ Len(result.d["concepts"].l) = 5

\* C6: one author record per authorship entry, in input order; the ORCID is ""
\* when the input ORCID is missing or null, the name is "" when the display
\* name is absent, the institutions are the display names in input order.
C6_AuthorsInOrder ==
    (Returned /\ Field("authorships").t = "list") =>
        LET given == Field("authorships").l
            got == result.d["authors"].l
        IN  /\ Len(got) = Len(given)
            /\ \A i \in 1..Len(got) :
                  LET author == IF "author" \in DOMAIN given[i].d
                                THEN given[i].d["author"].d ELSE <<>>
                      insts == IF "institutions" \in DOMAIN given[i].d
                               THEN given[i].d["institutions"].l ELSE <<>>
                  IN  /\ got[i].d["name"] =
                            IF "display_name" \in DOMAIN author
                            THEN author["display_name"] ELSE PyStr("")
                      /\ got[i].d["orcid"] =
                            IF "orcid" \in DOMAIN author /\ author["orcid"] # PyNone
                            THEN author["orcid"] ELSE PyStr("")
                      /\ got[i].d["institutions"].l =
                            [j \in 1..Len(insts) |-> insts[j].d["display_name"]]

C6_Witness ==
    /\ Returned
    /\ Field("authorships").t = "list"
    /\ Len(Field("authorships").l) = 2
    /\ result.d["authors"].l[1].d["name"] = PyStr("Bob")
    /\ result.d["authors"].l[2].d["name"] = PyStr("Ann")
    /\ result.d["authors"].l[2].d["orcid"] = PyStr("")
    /\ "orcid" \in DOMAIN Field("authorships").l[2].d["author"].d
    /\ Len(result.d["authors"].l[1].d["institutions"].l) = 2

(***************************************************************************)
(* OpenAlexService                                                         *)
(***************************************************************************)
MaxQueryLen == 2
MinPerPage == 1
MaxPerPage == 200
MinPage == 1

IsSpace(c) == c \in {" ", "\t", "\n"}

RECURSIVE LStrip(_)
LStrip(s) == IF s = "" THEN "" ELSE IF IsSpace(Head(s)) THEN LStrip(Tail(s)) ELSE s

RECURSIVE RStrip(_)
RStrip(s) ==
    IF s = "" THEN ""
    ELSE IF IsSpace(SubSeq(s, Len(s), Len(s))) THEN RStrip(SubSeq(s, 1, Len(s) - 1))
    ELSE s

\* s.strip()
Strip(s) == RStrip(LStrip(s))

\* An exception with its message
Exception(exc, msg) == [t |-> "raise", exc |-> exc, msg |-> msg]

\* raise OpenAlexAPIError(f"Failed to retrieve <what> from OpenAlex: {str(e)}") from e
WrapErrorUnchained(what, e) ==
    [t |-> "raise", exc |-> "OpenAlexAPIError",
     msg |-> "Failed to retrieve " \o what \o " from OpenAlex: " \o e.msg,
     cause |-> PyNone]

WrapError(what, e) ==
    [t |-> "raise", exc |-> "OpenAlexAPIError",
     msg |-> "Failed to retrieve " \o what \o " from OpenAlex: " \o e.msg,
     cause |-> e]

ValidOaStatuses == {"gold", "green", "hybrid", "bronze"}

\* isinstance(v, int) and lo <= v, and v <= hi when hi is given
IntAtLeast(v, lo) == v.t = "int" /\ v.n >= lo

\* ValidationError without the upper limit of per_page
ValidationErrorNoUpperLimit(args) ==
    IF \/ ~Truthy(args.query)
       \/ args.query.t # "str"
       \/ Len(Strip(args.query.s)) = 0
    THEN Exception("ValueError", "Query must be a non-empty string")
    ELSE IF ~IntAtLeast(args.per_page, MinPerPage)
    THEN Exception("ValueError", "per_page must be an integer between 1 and 200")
    ELSE IF ~IntAtLeast(args.page, MinPage)
    THEN Exception("ValueError", "page must be a positive integer")
    ELSE IF /\ args.op = "papers"
            /\ args.oa_status # PyNone
            /\ ~(args.oa_status.t = "str" /\ args.oa_status.s \in ValidOaStatuses)
    THEN Exception("ValueError",
             "oa_status must be one of ['gold', 'green', 'hybrid', 'bronze'] or None")
    ELSE NoResult

\* The input validation of search_papers and search_authors: the ValueError
\* raised, or NoResult when the arguments pass
ValidationError(args) ==
    IF \/ ~Truthy(args.query)
       \/ args.query.t # "str"
       \/ Len(Strip(args.query.s)) = 0
    THEN Exception("ValueError", "Query must be a non-empty string")
    ELSE IF ~IntAtLeast(args.per_page, MinPerPage) \/ args.per_page.n > MaxPerPage
    THEN Exception("ValueError", "per_page must be an integer between 1 and 200")
    ELSE IF ~IntAtLeast(args.page, MinPage)
    THEN Exception("ValueError", "page must be a positive integer")
    ELSE IF /\ args.op = "papers"
            /\ args.oa_status # PyNone
            /\ ~(args.oa_status.t = "str" /\ args.oa_status.s \in ValidOaStatuses)
    THEN Exception("ValueError",
             "oa_status must be one of ['gold', 'green', 'hybrid', 'bronze'] or None")
    ELSE NoResult

\* What the error message names
Entity(op) == IF op = "papers" THEN "papers" ELSE "authors"

\* Exceptions the pyalex calls may raise
ProviderFailures ==
    { Exception("Timeout", "API timeout"),
      Exception("HTTPError", "503 Server Error") }

\* Works the provider returns: a minimal one, a full one, one with null authorships
MinimalWork ==
    PyDict("id" :> PyStr("https://openalex.org/W1") @@ "title" :> PyStr("Minimal Paper"))
SampleWork ==
    PyDict("id" :> PyStr("https://openalex.org/W2") @@ "title" :> PyStr("Sample")
           @@ "abstract_inverted_index" :> InvertedIndex(<<"a", "b">>)
           @@ "concepts" :> PyList(<<Concept("ML", 9)>>))
NullAuthorsWork ==
    PyDict("id" :> PyStr("https://openalex.org/W3") @@ "authorships" :> PyNone)

ProviderResults == {<<>>, <<SampleWork, MinimalWork>>, <<NullAuthorsWork>>}

\* One call on the pyalex query object, with the exception it raised if any
ProviderCall(name, params, raised) == [name |-> name, params |-> params, raised |-> raised]

(***************************************************************************)
(* Input strings and arguments                                             *)
(***************************************************************************)
RECURSIVE StringsUpTo(_, _)
StringsUpTo(alphabet, n) ==
    IF n = 0 THEN {""}
    ELSE LET shorter == StringsUpTo(alphabet, n - 1)
         IN  shorter \cup {s \o c : s \in shorter, c \in alphabet}

QueryStrings == StringsUpTo({" ", "a"}, MaxQueryLen)

QueryArgs == {PyNone} \cup {PyStr(s) : s \in QueryStrings}
PerPageArgs == {PyStr("25")} \cup {PyInt(n) : n \in {0, 1, 25, 200, 201}}
PageArgs == {PyStr("1")} \cup {PyInt(n) : n \in {-1, 0, 1, 3}}
OaStatusArgs == {PyNone, PyStr(""), PyStr("platinum")} \cup {PyStr(s) : s \in ValidOaStatuses}

PapersArgs ==
    [op : {"papers"}, query : QueryArgs, per_page : PerPageArgs, page : PageArgs,
     exclude_retracted : {PyBool(TRUE), PyBool(FALSE)},
     open_access_only : {PyBool(TRUE), PyBool(FALSE)},
     oa_status : OaStatusArgs]

AuthorsArgs ==
    [op : {"authors"}, query : QueryArgs, per_page : PerPageArgs, page : PageArgs]

(***************************************************************************)
(* search_papers / search_authors, one step per statement that raises or   *)
(* calls the provider                                                      *)
(***************************************************************************)

\* Entry into search_papers or search_authors
ClientEnter(args) ==
    /\ cpc = "idle"
    /\ cpc' = "validate"
    /\ cargs' = args
    /\ calls' = <<>>
    /\ cout' = NoResult

\* The client returns v or raises it
ClientLeave(v) ==
    /\ cpc' = "idle"
    /\ cout' = v

\* A caller other than the view calls search_papers
CallSearchPapers ==
    /\ hpc = "idle"
    /\ cout = NoResult
    /\ \E args \in PapersArgs : ClientEnter(args)
    /\ UNCHANGED <<normVars, viewVars>>

\* A caller other than the view calls search_authors
CallSearchAuthors ==
    /\ hpc = "idle"
    /\ cout = NoResult
    /\ \E args \in AuthorsArgs : ClientEnter(args)
    /\ UNCHANGED <<normVars, viewVars>>

\* That caller has the list or the exception; the call is over
CallReturned ==
    /\ hpc = "idle"
    /\ cpc = "idle"
    /\ cout # NoResult
    /\ cargs' = NoResult
    /\ calls' = <<>>
    /\ cout' = NoResult
    /\ UNCHANGED <<cpc, normVars, viewVars>>

\* The checks before the try block
Validate ==
    /\ cpc = "validate"
    /\ IF ValidationError(cargs) # NoResult
       THEN ClientLeave(ValidationError(cargs))
       ELSE cpc' = "search" /\ UNCHANGED cout
    /\ UNCHANGED <<cargs, calls, normVars, viewVars>>

\* One provider call inside the try block: it returns and the client goes on
\* to the next statement, or it raises and the except clause wraps the error
ProviderStep(name, params, next) ==
    \/ /\ calls' = Append(calls, ProviderCall(name, params, NoResult))
       /\ cpc' = next
       /\ UNCHANGED cout
    \/ \E e \in ProviderFailures :
          /\ calls' = Append(calls, ProviderCall(name, params, e))
          /\ ClientLeave(WrapError(Entity(cargs.op), e))

\* Works().search(query) / Authors().search(query)
ProviderSearch ==
    /\ cpc = "search"
    /\ ProviderStep("search", "query" :> cargs.query,
                    IF cargs.op = "papers" THEN "filter_retracted" ELSE "get")
    /\ UNCHANGED <<cargs, normVars, viewVars>>

\* FilterStep applied whatever the flag
FilterStepAlways(flag, key, value, next) ==
    ProviderStep("filter", key :> value, next)

\* if <flag>: works_query = works_query.filter(<key>=<value>)
FilterStep(flag, key, value, next) ==
    IF Truthy(flag)
    THEN ProviderStep("filter", key :> value, next)
    ELSE cpc' = next /\ UNCHANGED <<calls, cout>>

FilterRetracted ==
    /\ cpc = "filter_retracted"
    /\ FilterStep(cargs.exclude_retracted, "is_retracted", PyBool(FALSE), "filter_oa")
    /\ UNCHANGED <<cargs, normVars, viewVars>>

FilterOpenAccess ==
    /\ cpc = "filter_oa"
    /\ FilterStep(cargs.open_access_only, "is_oa", PyBool(TRUE), "filter_status")
    /\ UNCHANGED <<cargs, normVars, viewVars>>

FilterOaStatus ==
    /\ cpc = "filter_status"
    /\ FilterStep(cargs.oa_status, "oa_status", cargs.oa_status, "get")
    /\ UNCHANGED <<cargs, normVars, viewVars>>

\* results = query.get(per_page=per_page, page=page); return list(results)
ProviderGet ==
    /\ cpc = "get"
    /\ LET call(raised) == ProviderCall("get", "per_page" :> cargs.per_page
                                               @@ "page" :> cargs.page, raised)
       IN  \/ \E results \in ProviderResults :
                 /\ calls' = Append(calls, call(NoResult))
                 /\ ClientLeave(PyList(results))
           \/ \E e \in ProviderFailures :
                 /\ calls' = Append(calls, call(e))
                 /\ ClientLeave(WrapError(Entity(cargs.op), e))
    /\ UNCHANGED <<cargs, normVars, viewVars>>

ClientNext ==
    \/ CallSearchPapers
    \/ CallSearchAuthors
    \/ CallReturned
    \/ Validate
    \/ ProviderSearch
    \/ FilterRetracted
    \/ FilterOpenAccess
    \/ FilterOaStatus
    \/ ProviderGet

SpecClient == Init /\ [][ClientNext]_vars

(***************************************************************************)
(* Properties of the client (checked under SpecClient)                     *)
(***************************************************************************)
InCall == cargs # NoResult
ClientRaised(exc) == cout # NoResult /\ IsRaise(cout) /\ cout.exc = exc
ClientReturned == cpc = "idle" /\ cout # NoResult /\ ~IsRaise(cout)

AllWhitespace(s) == \A i \in 1..Len(s) : SubSeq(s, i, i) \in {" ", "\t", "\n"}

\* The arguments the claim names as invalid
NamedInvalid(args) ==
    \/ args.query.t = "str" /\ AllWhitespace(args.query.s)
    \/ args.per_page.t = "int" /\ (args.per_page.n < 1 \/ args.per_page.n > 200)
    \/ ~(args.page.t = "int" /\ args.page.n >= 1)
    \/ /\ args.op = "papers"
       /\ args.oa_status # PyNone
       /\ args.oa_status \notin {PyStr("gold"), PyStr("green"), PyStr("hybrid"), PyStr("bronze")}

\* C7: search_papers and search_authors fail with ValueError on an empty or
\* all-whitespace query, a per_page outside [1, 200], a page that is no positive
\* integer or (search_papers) an oa_status outside gold/green/hybrid/bronze, and
\* no provider call precedes or accompanies a ValueError or such arguments.
C7_ValidateBeforeProvider ==
    /\ (InCall /\ NamedInvalid(cargs)) =>
          /\ calls = <<>>
          /\ cpc \in {"validate", "idle"}
          /\ cpc = "idle" => ClientRaised("ValueError")
    /\ ClientRaised("ValueError") => calls = <<>>

C7_Witness ==
    /\ InCall
    /\ cargs.op = "authors"
    /\ cargs.query = PyStr("a")
    /\ cargs.per_page = PyInt(201)
    /\ cargs.page = PyInt(1)
    /\ ClientRaised("ValueError")
    /\ calls = <<>>

\* C8: once validation has passed, a failure of any provider call reaches the
\* caller as one OpenAlexAPIError whose cause is the exception the provider
\* raised; no other exception type leaves the client.
C8_ProviderErrorsWrapped ==
    /\ \A i \in 1..Len(calls) :
          calls[i].raised # NoResult =>
              /\ i = Len(calls)
              /\ cpc = "idle"
              /\ ClientRaised("OpenAlexAPIError")
              /\ cout.cause = calls[i].raised
    /\ (cout # NoResult /\ IsRaise(cout) /\ calls # <<>>) =>
          /\ cout.exc = "OpenAlexAPIError"
          /\ calls[Len(calls)].raised = cout.cause
    /\ (cout # NoResult /\ IsRaise(cout)) => cout.exc \in {"ValueError", "OpenAlexAPIError"}

C8_Witness ==
    /\ InCall
    /\ cargs.op = "authors"
    /\ ClientRaised("OpenAlexAPIError")
    /\ cout.cause.exc = "Timeout"
    /\ calls[Len(calls)].name = "get"

\* The filters the claim assigns to the arguments
NamedFilters(args) ==
    (IF args.exclude_retracted = PyBool(TRUE)
     THEN {"is_retracted" :> PyBool(FALSE)} ELSE {})
    \cup (IF args.open_access_only = PyBool(TRUE) THEN {"is_oa" :> PyBool(TRUE)} ELSE {})
    \cup (IF args.oa_status # PyNone THEN {"oa_status" :> args.oa_status} ELSE {})

CallsNamed(name) == {i \in 1..Len(calls) : calls[i].name = name}

\* C9: when search_papers returns, the filters applied to the request are
\* exactly is_retracted=False iff exclude_retracted, is_oa=True iff
\* open_access_only, oa_status=<value> iff oa_status is given, each once, and the
\* request was issued exactly once, with the given per_page and page.
C9_FiltersIndependent ==
    (InCall /\ cargs.op = "papers" /\ ClientReturned) =>
        /\ {calls[i].params : i \in CallsNamed("filter")} = NamedFilters(cargs)
        /\ Cardinality(CallsNamed("filter")) = Cardinality(NamedFilters(cargs))
        /\ CallsNamed("search") = {1}
        /\ calls[1].params = ("query" :> cargs.query)
        /\ CallsNamed("get") = {Len(calls)}
        /\ calls[Len(calls)].params =
              ("per_page" :> cargs.per_page @@ "page" :> cargs.page)

C9_Witness ==
    /\ InCall
    /\ cargs.op = "papers"
    /\ ClientReturned
    /\ cargs.exclude_retracted = PyBool(FALSE)
    /\ cargs.open_access_only = PyBool(TRUE)
    /\ cargs.oa_status = PyStr("gold")
    /\ cargs.page = PyInt(3)
    /\ Len(calls) = 4

(***************************************************************************)
(* views.search                                                            *)
(***************************************************************************)
MaxLog == 2
DefaultPerPage == 25
ViewMinPerPage == 1
ViewMaxPerPage == 50
DefaultPage == 1

ValidModes == {"relevance", "open_access", "best_match"}

DigitValue(c) ==
    CASE c = "0" -> 0 [] c = "1" -> 1 [] c = "2" -> 2 [] c = "3" -> 3 [] c = "4" -> 4
      [] c = "5" -> 5 [] c = "6" -> 6 [] c = "7" -> 7 [] c = "8" -> 8 [] c = "9" -> 9
      [] OTHER -> -1

\* The value of a string of decimal digits, -1 if another character occurs
RECURSIVE DigitsValue(_, _)
DigitsValue(s, acc) ==
    IF s = "" THEN acc
    ELSE IF DigitValue(Head(s)) < 0 THEN -1
    ELSE DigitsValue(Tail(s), acc * 10 + DigitValue(Head(s)))

\* int(s) for a str: surrounding whitespace and a sign are accepted
PyIntParse(s) ==
    LET t == Strip(s)
        signed == t # "" /\ Head(t) \in {"+", "-"}
        digits == IF signed THEN Tail(t) ELSE t
        v == IF digits = "" THEN -1 ELSE DigitsValue(digits, 0)
    IN  IF v < 0 THEN Raise("ValueError")
        ELSE PyInt(IF signed /\ Head(t) = "-" THEN 0 - v ELSE v)

\* request.GET.get(k, dflt)
GetParam(r, k, dflt) == IF k \in DOMAIN r.GET THEN r.GET[k] ELSE dflt

ViewQuery(r) == Strip(GetParam(r, "q", ""))
ViewMode(r) == Strip(GetParam(r, "mode", "relevance"))

\* per_page with the parsed value replaced by the nearest limit when out of range
ViewPerPageNearest(r) ==
    LET parsed == PyIntParse(GetParam(r, "per_page", "25"))
    IN  IF IsRaise(parsed) THEN DefaultPerPage
        ELSE IF parsed.n < ViewMinPerPage THEN ViewMinPerPage
        ELSE IF parsed.n > ViewMaxPerPage THEN ViewMaxPerPage
        ELSE parsed.n

\* The per_page the view passes on
ViewPerPage(r) ==
    LET parsed == PyIntParse(GetParam(r, "per_page", "25"))
    IN  IF IsRaise(parsed) THEN DefaultPerPage
        ELSE IF parsed.n < ViewMinPerPage \/ parsed.n > ViewMaxPerPage THEN DefaultPerPage
        ELSE parsed.n

\* JsonResponse(body, status=status)
JsonResponse(status, body) == [t |-> "response", status |-> status, body |-> body]

ErrorBody(msg) == PyDict("error" :> PyStr(msg))

\* ViewCallArgs with every mode but relevance restricting to open access
ViewCallArgsAnyMode(r) ==
    [op |-> "papers",
     query |-> PyStr(ViewQuery(r)),
     per_page |-> PyInt(ViewPerPage(r)),
     page |-> PyInt(DefaultPage),
     exclude_retracted |-> PyBool(TRUE),
     open_access_only |-> PyBool(ViewMode(r) # "relevance"),
     oa_status |-> IF "oa_status" \in DOMAIN r.GET THEN PyStr(r.GET["oa_status"]) ELSE PyNone]

\* The arguments of openalex_service.search_papers(query=, per_page=,
\* open_access_only=, oa_status=); page and exclude_retracted take their defaults
ViewCallArgs(r) ==
    [op |-> "papers",
     query |-> PyStr(ViewQuery(r)),
     per_page |-> PyInt(ViewPerPage(r)),
     page |-> PyInt(DefaultPage),
     exclude_retracted |-> PyBool(TRUE),
     open_access_only |-> PyBool(ViewMode(r) = "open_access"),
     oa_status |-> IF "oa_status" \in DOMAIN r.GET THEN PyStr(r.GET["oa_status"]) ELSE PyNone]

\* GET parameters of the requests
Requests ==
    { [t |-> "request", GET |-> q @@ m @@ pp @@ oa @@ pg] :
        q \in OptField("q", {"", " ", "a", " a "}),
        m \in OptField("mode", {"open_access", "best_match", " relevance", "newest"}),
        pp \in OptField("per_page", {"0", "2", "50", "51", "many"}),
        oa \in OptField("oa_status", {"gold", "platinum"}),
        pg \in OptField("page", {"3"}) }

\* GET /api/search/ arrives
ReceiveRequest ==
    /\ hpc = "idle"
    /\ req = NoResult
    /\ Len(qlog) < MaxLog
    /\ \E r \in Requests : req' = r
    /\ hpc' = "validate"
    /\ UNCHANGED <<resp, papers, qlog, creates, clientVars, normVars>>

\* The response is sent: nothing of the request is left but the rows it wrote
ResponseSent ==
    /\ hpc = "idle"
    /\ resp # NoResult
    /\ req' = NoResult
    /\ resp' = NoResult
    /\ papers' = NoResult
    /\ cargs' = NoResult
    /\ calls' = <<>>
    /\ cout' = NoResult
    /\ creates' = <<>>
    /\ UNCHANGED <<hpc, cpc, qlog, normVars>>

\* The view returns the response
Respond(r) ==
    /\ resp' = r
    /\ hpc' = "idle"

\* "Validate query" and "Validate mode"
ViewValidate ==
    /\ hpc = "validate"
    /\ IF ViewQuery(req) = ""
       THEN Respond(JsonResponse(400, ErrorBody("Query parameter 'q' is required.")))
       ELSE IF ViewMode(req) \notin ValidModes
       THEN Respond(JsonResponse(400, ErrorBody(
                "Invalid mode '" \o ViewMode(req)
                    \o "'. Must be one of: best_match, open_access, relevance")))
       ELSE hpc' = "call" /\ UNCHANGED resp
    /\ UNCHANGED <<req, papers, qlog, creates, clientVars, normVars>>

\* raw_results = openalex_service.search_papers(...)
ViewCallClient ==
    /\ hpc = "call"
    /\ ClientEnter(ViewCallArgs(req))
    /\ hpc' = "await"
    /\ UNCHANGED <<req, resp, papers, qlog, creates, normVars>>

\* except ValueError -> 400, except OpenAlexAPIError -> 502
ViewClientRaised ==
    /\ hpc = "await"
    /\ cpc = "idle"
    /\ cout # NoResult
    /\ IsRaise(cout)
    /\ Respond(JsonResponse(IF cout.exc = "ValueError" THEN 400 ELSE 502,
                            ErrorBody(cout.msg)))
    /\ UNCHANGED <<req, papers, qlog, creates, clientVars, normVars>>

\* [extract_metadata(work) for work in raw_results]
RECURSIVE ExtractAll(_)
ExtractAll(works) ==
    IF works = <<>> THEN PyList(<<>>)
    ELSE LET first == ExtractMetadata(Head(works))
         IN  IF IsRaise(first) THEN first
             ELSE LET rest == ExtractAll(Tail(works))
                  IN  IF IsRaise(rest) THEN rest
                      ELSE PyList(<<first>> \o rest.l)

\* The client returned: the papers are extracted.  An exception of
\* extract_metadata is caught nowhere in the view: the framework answers 500.
ViewExtract ==
    /\ hpc = "await"
    /\ cpc = "idle"
    /\ cout # NoResult
    /\ ~IsRaise(cout)
    /\ IF IsRaise(ExtractAll(cout.l))
       THEN Respond(JsonResponse(500, PyNone)) /\ UNCHANGED papers
       ELSE papers' = ExtractAll(cout.l) /\ hpc' = "log" /\ UNCHANGED resp
    /\ UNCHANGED <<req, qlog, creates, clientVars, normVars>>

\* The row QueryLog.objects.create writes
LogRow(r, ps) ==
    [query_text |-> ViewQuery(r), ranking_mode |-> ViewMode(r), result_count |-> Len(ps.l)]

\* One call of QueryLog.objects.create, with whether it raised
CreateCall(row, raised) == [row |-> row, raised |-> raised]

\* ViewLog with the exception of a failed write leaving the view
ViewLogSurfacing ==
    /\ hpc = "log"
    /\ \/ /\ qlog' = Append(qlog, LogRow(req, papers))
          /\ creates' = Append(creates, CreateCall(LogRow(req, papers), FALSE))
          /\ hpc' = "respond"
          /\ UNCHANGED resp
       \/ /\ creates' = Append(creates, CreateCall(LogRow(req, papers), TRUE))
          /\ Respond(JsonResponse(500, PyNone))
          /\ UNCHANGED qlog
    /\ UNCHANGED <<req, papers, clientVars, normVars>>

\* ViewLog with the write left out when no paper was found
ViewLogNonEmpty ==
    /\ hpc = "log"
    /\ IF papers.l = <<>>
       THEN UNCHANGED <<qlog, creates>>
       ELSE \/ /\ qlog' = Append(qlog, LogRow(req, papers))
               /\ creates' = Append(creates, CreateCall(LogRow(req, papers), FALSE))
            \/ /\ creates' = Append(creates, CreateCall(LogRow(req, papers), TRUE))
               /\ UNCHANGED qlog
    /\ hpc' = "respond"
    /\ UNCHANGED <<req, resp, papers, clientVars, normVars>>

\* QueryLog.objects.create(...): the row is written, or the write raises and
\* the exception is logged and dropped
ViewLog ==
    /\ hpc = "log"
    /\ \/ /\ qlog' = Append(qlog, LogRow(req, papers))
          /\ creates' = Append(creates, CreateCall(LogRow(req, papers), FALSE))
       \/ /\ creates' = Append(creates, CreateCall(LogRow(req, papers), TRUE))
          /\ UNCHANGED qlog
    /\ hpc' = "respond"
    /\ UNCHANGED <<req, resp, papers, clientVars, normVars>>

\* return JsonResponse({"papers", "count", "mode", "query"})
ViewRespond ==
    /\ hpc = "respond"
    /\ Respond(JsonResponse(200,
           PyDict("papers" :> papers @@ "count" :> PyInt(Len(papers.l))
                  @@ "mode" :> PyStr(ViewMode(req)) @@ "query" :> PyStr(ViewQuery(req)))))
    /\ UNCHANGED <<req, papers, qlog, creates, clientVars, normVars>>

Next ==
    \/ ReceiveRequest
    \/ ViewValidate
    \/ ViewCallClient
    \/ Validate
    \/ ProviderSearch
    \/ FilterRetracted
    \/ FilterOpenAccess
    \/ FilterOaStatus
    \/ ProviderGet
    \/ ViewClientRaised
    \/ ViewExtract
    \/ ViewLog
    \/ ViewRespond
    \/ ResponseSent

Spec == Init /\ [][Next]_vars

(***************************************************************************)
(* Properties of the view (checked under Spec)                             *)
(***************************************************************************)
Responded == hpc = "idle" /\ resp # NoResult

\* q is missing, empty or only whitespace
QueryMissing(r) == "q" \notin DOMAIN r.GET \/ AllWhitespace(r.GET["q"])

\* C10: a request whose q is missing, empty or only whitespace is answered 400
\* with an error that carries the code missing_query, and the client is not
\* invoked.
C10_MissingQueryCode ==
    (Responded /\ QueryMissing(req)) =>
        /\ resp.status = 400
        /\ cargs = NoResult
        /\ calls = <<>>
        /\ resp.body.d["error"].t = "dict"
        /\ PyGet(resp.body.d["error"], "code", PyNone) = PyStr("missing_query")

\* The mode of the request is one of the three ranking modes
ModeValid(r) == ViewMode(r) \in ValidModes

\* The client was invoked by the handler and has returned a list
ClientSucceeded == cargs # NoResult /\ cout # NoResult /\ ~IsRaise(cout)

\* C11: the handler maps each failure to a fixed status: a mode outside
\* {relevance, open_access, best_match} is answered 400 before the client is
\* invoked; a ValueError of the client 400 with its message; an OpenAlexAPIError
\* of the client 502 with its message; a request with a non-empty q and none of
\* these failures is answered 200.
C11_FailureStatus ==
    Responded =>
        /\ (~QueryMissing(req) /\ ~ModeValid(req)) =>
              resp.status = 400 /\ cargs = NoResult /\ calls = <<>>
        /\ ClientRaised("ValueError") =>
              resp = JsonResponse(400, ErrorBody(cout.msg))
        /\ ClientRaised("OpenAlexAPIError") =>
              resp = JsonResponse(502, ErrorBody(cout.msg))
        /\ (~QueryMissing(req) /\ ModeValid(req) /\ ClientSucceeded) =>
              resp.status = 200

\* The body of the 200 response for request r and extracted papers ps
OkBody(r, ps) ==
    PyDict("papers" :> ps @@ "count" :> PyInt(Len(ps.l))
           @@ "mode" :> PyStr(ViewMode(r)) @@ "query" :> PyStr(ViewQuery(r)))

\* The request got as far as the QueryLog write
LogAttempted == papers # NoResult /\ hpc \in {"respond", "idle"}

\* C12: the QueryLog write is best-effort: once the write was attempted, the
\* response is 200 with papers, count, mode and query, the same whether the
\* row was written or the write raised; a failed write leaves no trace in the
\* response, which is not produced before the final return.
C12_LogBestEffort ==
    /\ (LogAttempted /\ hpc = "respond") => resp = NoResult
    /\ (LogAttempted /\ Responded) => resp = JsonResponse(200, OkBody(req, papers))

\* The write failed (no row) and the request was answered 200
C12_Witness ==
    /\ Responded
    /\ LogAttempted
    /\ qlog = <<>>
    /\ resp.status = 200
    /\ resp.body.d["count"] = PyInt(2)

\* The handler has called the client for the request at hand
ClientCalled == req # NoResult /\ cargs # NoResult

ParsedPerPage(r) == PyIntParse(GetParam(r, "per_page", "25"))

\* C14: the handler never fails on per_page: a per_page that is no integer or
\* lies outside [1, 50] reaches the client as 25, any other as its parsed
\* value, so every client call of the handler has per_page in [1, 50]; a
\* request with a query and a valid mode always reaches the client, and the
\* client never rejects the per_page of the handler.
C14_PerPageDefault ==
    /\ ClientCalled =>
          /\ cargs.per_page.t = "int"
          /\ cargs.per_page.n \in 1..50
          /\ IF IsRaise(ParsedPerPage(req))
             THEN cargs.per_page.n = 25
             ELSE IF ParsedPerPage(req).n < 1 \/ ParsedPerPage(req).n > 50
             THEN cargs.per_page.n = 25
             ELSE cargs.per_page.n = ParsedPerPage(req).n
          /\ ClientRaised("ValueError") =>
                cout.msg # "per_page must be an integer between 1 and 200"
    /\ (Responded /\ ~QueryMissing(req) /\ ModeValid(req)) => ClientCalled

\* per_page=51 was asked for and the client was called with 25
C14_Witness ==
    /\ ClientCalled
    /\ ClientSucceeded
    /\ GetParam(req, "per_page", "25") = "51"
    /\ cargs.per_page = PyInt(25)
    /\ calls[Len(calls)].params["per_page"] = PyInt(25)

\* The row the claim expects for request r answered with response rs
ExpectedRow(r, rs) ==
    [query_text |-> Strip(GetParam(r, "q", "")),
     ranking_mode |-> ViewMode(r),
     result_count |-> Len(rs.body.d["papers"].l)]

\* Creations per request: one for a request answered 200, with the trimmed
\* query, the mode and the number of papers; none for one answered 400 or 502
CreatesPerRequest ==
    /\ Len(creates) <= 1
    /\ (Responded /\ resp.status = 200) =>
          /\ Len(creates) = 1
          /\ creates[1].row = ExpectedRow(req, resp)
    /\ (Responded /\ resp.status \in {400, 502}) => creates = <<>>

\* A step changes the table only by adding the row of a creation, at the end
LogOnlyGrows ==
    \/ qlog' = qlog
    \/ /\ Len(creates') = Len(creates) + 1
       /\ ~creates'[Len(creates')].raised
       /\ qlog' = Append(qlog, creates'[Len(creates')].row)

\* C15: over any sequence of requests the handler attempts exactly one
\* QueryLog creation for each request it answers with the papers of a
\* successful client call (with the trimmed query, the mode and the number of
\* papers), none for a request answered 400 or 502, and never changes or
\* removes a row: the table only grows.
C15_OneLogPerSearch == []CreatesPerRequest /\ [][LogOnlyGrows]_vars

\* The second successful request has added the second row
C15_Witness ==
    /\ Responded
    /\ resp.status = 200
    /\ Len(qlog) = 2
    /\ Len(creates) = 1
    /\ qlog[2] = creates[1].row
    /\ qlog[1] # qlog[2]
    /\ GetParam(req, "q", "") = " a "
    /\ qlog[2].query_text = "a"

\* The 502 body the handler would send had the provider raised e instead
BodyUnderCause(e) == ErrorBody(WrapError(Entity(cargs.op), e).msg)

\* C16: the error sent to the HTTP caller on an upstream failure does not
\* depend on the cause: the 502 body of a request is the body the same request
\* gets under any other text of the provider's exception.
C16_GenericUpstreamError ==
    (Responded /\ resp.status = 502) =>
        \A e \in ProviderFailures : resp.body = BodyUnderCause(e)

(***************************************************************************)
(* Abstract reconstruction over pairs of indexes (checked under SpecNorm)  *)
(***************************************************************************)
\* The inverted indexes among the inputs: dicts with their insertion order
OrderedIndexes == {v \in InvertedValues : IsOrdered(v)}

\* The index as a mapping: its (word, positions) pairs without their order
AsMapping(idx) == {idx.items[i] : i \in DOMAIN idx.items}

\* dict.__eq__: the same words with the same position lists
EqualAsMappings(a, b) == AsMapping(a) = AsMapping(b)

\* Every positions value is a list of integers
IntPositions(idx) ==
    \A i \in DOMAIN idx.items :
        /\ idx.items[i].v.t = "list"
        /\ \A j \in DOMAIN idx.items[i].v.l : idx.items[i].v.l[j].t = "int"

\* The entries of idx that record position p
EntriesAt(idx, p) ==
    {i \in DOMAIN idx.items : \E j \in DOMAIN idx.items[i].v.l : idx.items[i].v.l[j] = p}

\* The positions idx records
PositionsIn(idx) ==
    UNION {{idx.items[i].v.l[j] : j \in DOMAIN idx.items[i].v.l} : i \in DOMAIN idx.items}

\* No position is recorded for two different words
CollisionFree(idx) == \A p \in PositionsIn(idx) : Cardinality(EntriesAt(idx, p)) = 1

\* The word of the last entry, in iteration order, that records p
LastWordAt(idx, p) ==
    idx.items[CHOOSE i \in EntriesAt(idx, p) : \A k \in EntriesAt(idx, p) : k <= i].k

\* The words at the recorded positions, ascending, the last entry winning
LastWords(idx) ==
    LET order == SortedKeys(PositionsIn(idx))
    IN  [n \in 1..Len(order) |-> LastWordAt(idx, order[n])]

\* The abstract extract_metadata returns for a work that has idx only
AbstractOf(idx) == ReconstructAbstract(PyDict("abstract_inverted_index" :> idx))

\* C17: abstract reconstruction is deterministic: two inverted indexes that are
\* equal as mappings reconstruct to the same string, also when two words are
\* recorded at one position, and no error is raised.
C17_EqualMappingsSameAbstract ==
    (Returned /\ IsOrdered(Field("abstract_inverted_index"))
              /\ IntPositions(Field("abstract_inverted_index"))) =>
        \A other \in OrderedIndexes :
            EqualAsMappings(Field("abstract_inverted_index"), other)
                => AbstractOf(other) = result.d["abstract"]

\* C17 as amended: two indexes that are equal as mappings and record no
\* position for two different words reconstruct to the same string, whatever
\* the order of their entries; where two words are recorded at one position
\* the word of the entry that comes later in the iteration order stands there,
\* so that the result then depends on that order; positions that are lists of
\* integers never raise.
C17_DeterministicUpToOrder ==
    /\ (Extracted /\ DOMAIN work.d = {"abstract_inverted_index"}
                  /\ IsOrdered(Field("abstract_inverted_index"))
                  /\ IntPositions(Field("abstract_inverted_index"))) => Returned
    /\ (Returned /\ IsOrdered(Field("abstract_inverted_index"))
                 /\ IntPositions(Field("abstract_inverted_index"))) =>
          /\ result.d["abstract"] =
                PyStr(SpaceJoined(LastWords(Field("abstract_inverted_index"))))
          /\ \A other \in OrderedIndexes :
                (EqualAsMappings(Field("abstract_inverted_index"), other)
                    /\ CollisionFree(other))
                    => AbstractOf(other) = result.d["abstract"]

\* Two words at position 0: the later entry wins
C17_Witness ==
    /\ Returned
    /\ Field("abstract_inverted_index") =
          PyODict(<<Item("a", PyList(<<PyInt(0)>>)), Item("b", PyList(<<PyInt(0)>>))>>)
    /\ result.d["abstract"] = PyStr("b")
    /\ AbstractOf(PyODict(<<Item("b", PyList(<<PyInt(0)>>)), Item("a", PyList(<<PyInt(0)>>))>>))
          = PyStr("a")

(***************************************************************************)
(* Paging (checked under Spec)                                             *)
(***************************************************************************)
\* The request carries q, a per_page in [1, 50] and a positive page
HasPaging(r) ==
    /\ ~QueryMissing(r)
    /\ ModeValid(r)
    /\ "per_page" \in DOMAIN r.GET
    /\ ~IsRaise(ParsedPerPage(r))
    /\ ParsedPerPage(r).n \in 1..50
    /\ "page" \in DOMAIN r.GET
    /\ ~IsRaise(PyIntParse(r.GET["page"]))
    /\ PyIntParse(r.GET["page"]).n >= 1

\* C18: the handler passes page numbers through: a request with q, per_page
\* and page leads to one client call with that per_page and that page, and to
\* a 200 response that echoes the query, the page and the per_page.
C18_PagePassedThrough ==
    /\ (ClientCalled /\ HasPaging(req)) =>
          /\ cargs.per_page = ParsedPerPage(req)
          /\ cargs.page = PyIntParse(req.GET["page"])
    /\ (Responded /\ HasPaging(req) /\ resp.status = 200) =>
          /\ PyGet(resp.body, "query", PyNone) = PyStr(ViewQuery(req))
          /\ PyGet(resp.body, "page", PyNone) = PyIntParse(req.GET["page"])
          /\ PyGet(resp.body, "per_page", PyNone) = ParsedPerPage(req)

====
